---- MODULE Spec2Model ----
(***************************************************************************)
(* Model of the dashboard backend: the hierarchy validator                 *)
(* (validateAndGetGeoName), the KPI handler factory (fetchKPI) and the     *)
(* filter endpoints, in the two revisions the repository holds:            *)
(*   "server"  - src/server.js (MySQL revision, lines 229-558)             *)
(*   "part001" - src/unnamed/part_001                                      *)
(* Strings are sequences of one-character strings where the code looks at  *)
(* characters (parseInt, String), and sequences of words where it only     *)
(* concatenates and matches prefixes (messages, SQL text).                 *)
(***************************************************************************)
EXTENDS Integers, Sequences, FiniteSets, TLC

VARIABLES h, served, vc

vars == <<h, served, vc>>

(***************************************************************************)
(* JavaScript values.  s is String(value), as characters.                  *)
(***************************************************************************)
Undefined == [t |-> "undefined", s |-> <<"undefined">>]
Null == [t |-> "null", s |-> <<"null">>]
Str(cs) == [t |-> "string", s |-> cs]
Num(cs) == [t |-> "number", s |-> cs]

String(x) == x.s

\* JavaScript ToBoolean
Truthy(x) ==
    CASE x.t = "string" -> x.s # <<>>
      [] x.t = "number" -> x.s \notin {<<"0">>, <<"NaN">>}
      [] OTHER -> FALSE

DecDigits == {"0", "1", "2", "3", "4", "5", "6", "7", "8", "9"}
HexDigits == DecDigits \cup {"a", "b", "c", "d", "e", "f"}

DigitVal(c) ==
    CASE c = "0" -> 0 [] c = "1" -> 1 [] c = "2" -> 2 [] c = "3" -> 3
      [] c = "4" -> 4 [] c = "5" -> 5 [] c = "6" -> 6 [] c = "7" -> 7
      [] c = "8" -> 8 [] c = "9" -> 9 [] c = "a" -> 10 [] c = "b" -> 11
      [] c = "c" -> 12 [] c = "d" -> 13 [] c = "e" -> 14 [] c = "f" -> 15

DigitChar(d) ==
    CASE d = 0 -> "0" [] d = 1 -> "1" [] d = 2 -> "2" [] d = 3 -> "3"
      [] d = 4 -> "4" [] d = 5 -> "5" [] d = 6 -> "6" [] d = 7 -> "7"
      [] d = 8 -> "8" [] d = 9 -> "9"

RECURSIVE TrimLeft(_)
TrimLeft(cs) ==
    IF cs # <<>> /\ Head(cs) = " " THEN TrimLeft(Tail(cs)) ELSE cs

RECURSIVE ParseDigits(_, _, _, _)
ParseDigits(cs, radix, acc, seen) ==
    IF cs # <<>> /\ Head(cs) \in (IF radix = 16 THEN HexDigits ELSE DecDigits)
    THEN ParseDigits(Tail(cs), radix, acc * radix + DigitVal(Head(cs)), TRUE)
    ELSE [nan |-> ~seen, n |-> acc]

\* parseInt(x): leading blanks skipped, an optional sign, an optional 0x, then
\* the longest run of digits; NaN when there is none
parseInt(x) ==
    LET cs == TrimLeft(String(x))
        signed == cs # <<>> /\ Head(cs) \in {"+", "-"}
        neg == cs # <<>> /\ Head(cs) = "-"
        body == IF signed THEN Tail(cs) ELSE cs
        hex == Len(body) >= 2 /\ body[1] = "0" /\ body[2] \in {"x", "X"}
        r == IF hex THEN ParseDigits(SubSeq(body, 3, Len(body)), 16, 0, FALSE)
                    ELSE ParseDigits(body, 10, 0, FALSE)
    IN  [nan |-> r.nan, n |-> IF neg THEN 0 - r.n ELSE r.n]

isNaN(p) == p.nan

RECURSIVE NatToString(_)
NatToString(n) ==
    IF n < 10 THEN <<DigitChar(n)>>
    ELSE Append(NatToString(n \div 10), DigitChar(n % 10))

\* String(n) of a parseInt result
NumberToString(p) ==
    IF p.nan THEN <<"NaN">>
    ELSE IF p.n < 0 THEN <<"-">> \o NatToString(0 - p.n) ELSE NatToString(p.n)

\* the number parseInt returned, as a JavaScript value
NumberValue(p) == Num(NumberToString(p))

\* the format test without the round trip through String
NotIntegerFormat_prefixOnly(x) == isNaN(parseInt(x))

\* isNaN(parseInt(x)) || String(parseInt(x)) !== String(x)
NotIntegerFormat(x) ==
    isNaN(parseInt(x)) \/ NumberToString(parseInt(x)) # String(x)

(***************************************************************************)
(* Text: messages and SQL are sequences of words                           *)
(***************************************************************************)
startsWith(msg, prefix) ==
    Len(msg) >= Len(prefix) /\ SubSeq(msg, 1, Len(prefix)) = prefix

includes(msg, word) == \E i \in 1..Len(msg) : msg[i] = word

RECURSIVE join(_, _)
join(parts, sep) ==
    IF parts = <<>> THEN <<>>
    ELSE IF Len(parts) = 1 THEN parts[1]
    ELSE parts[1] \o <<sep>> \o join(Tail(parts), sep)

(***************************************************************************)
(* The database: the four master tables and the KPI rows                   *)
(***************************************************************************)
Circles ==
    { [id |-> 1, name |-> Str(<<"Agra">>), parent |-> 0],
      [id |-> 2, name |-> Str(<<>>), parent |-> 0] }

Divisions ==
    { [id |-> 1, name |-> Str(<<"Etah">>), parent |-> 1],
      [id |-> 2, name |-> Str(<<"Mathura">>), parent |-> 2],
      [id |-> 3, name |-> Null, parent |-> 1] }

Subdivisions ==
    { [id |-> 1, name |-> Str(<<"Kasganj">>), parent |-> 1],
      [id |-> 2, name |-> Str(<<"Vrindavan">>), parent |-> 2],
      [id |-> 3, name |-> Str(<<>>), parent |-> 3] }

Sections ==
    { [id |-> 1, name |-> Str(<<"Soron">>), parent |-> 1],
      [id |-> 2, name |-> Str(<<"Goverdhan">>), parent |-> 2],
      [id |-> 3, name |-> Str(<<"Patiyali">>), parent |-> 3] }

MasterTable(tableName) ==
    CASE tableName = "Circles" -> Circles
      [] tableName = "Divisions" -> Divisions
      [] tableName = "Subdivisions" -> Subdivisions
      [] tableName = "Sections" -> Sections

KpiRows ==
    { [k |-> 1, CircleID |-> 1, DivisionID |-> 1, SubdivisionID |-> 1,
       SectionID |-> 1, Year |-> 2023, Month |-> "Jan"],
      [k |-> 2, CircleID |-> 2, DivisionID |-> 2, SubdivisionID |-> 2,
       SectionID |-> 2, Year |-> 2023, Month |-> "Feb"],
      [k |-> 3, CircleID |-> 1, DivisionID |-> 3, SubdivisionID |-> 3,
       SectionID |-> 3, Year |-> 2023, Month |-> "Mar"],
      [k |-> 4, CircleID |-> 2, DivisionID |-> 2, SubdivisionID |-> 2,
       SectionID |-> 2, Year |-> 2024, Month |-> "Jan"],
      [k |-> 5, CircleID |-> 1, DivisionID |-> 1, SubdivisionID |-> 1,
       SectionID |-> 1, Year |-> 2022, Month |-> "Dec"] }

\* collation of the names the tables hold (NULL sorts first)
NameOrder ==
    <<Null, Str(<<>>), Str(<<"Agra">>), Str(<<"Etah">>), Str(<<"Goverdhan">>),
      Str(<<"Kasganj">>), Str(<<"Mathura">>), Str(<<"Patiyali">>), Str(<<"Soron">>),
      Str(<<"Vrindavan">>)>>

NameRank(name) == CHOOSE i \in 1..Len(NameOrder) : NameOrder[i] = name

\* what the server reports when a call to the database fails
DbErrors ==
    { <<"connect", "ECONNREFUSED">>,
      <<"SSL", "connection", "is", "required", ".">> }

(***************************************************************************)
(* Queries: the SQL text as words, the columns of its WHERE clause in      *)
(* order, and the bound parameters                                         *)
(***************************************************************************)
NoQuery == [op |-> "none", table |-> "", text |-> <<>>, where |-> <<>>, params |-> <<>>]

Query(op, table, text, where, params) ==
    [op |-> op, table |-> table, text |-> text, where |-> where, params |-> params]

\* the integer a bound parameter stands for in a comparison with an integer column
ParamIsInt(v) == v.t \in {"string", "number"} /\ ~isNaN(parseInt(v))
ParamInt(v) == parseInt(v).n

RECURSIVE SortRows(_, _)
\* rows of the set S as a sequence, ascending in key[row]
SortRows(S, key) ==
    IF S = {} THEN <<>>
    ELSE LET m == CHOOSE r \in S : \A o \in S : key[r] <= key[o]
         IN  <<m>> \o SortRows(S \ {m}, key)

NameOfId(tableName, id) ==
    LET hit == {r \in MasterTable(tableName) : r.id = id}
    IN  IF hit = {} THEN Null ELSE (CHOOSE r \in hit : TRUE).name

\* SELECT <nameCol> FROM <table> WHERE <idCol> = ? [AND <parentIdCol> = ?]
GeoLookup(q) ==
    LET hit == {r \in MasterTable(q.table) :
                  /\ ParamIsInt(q.params[1]) /\ r.id = ParamInt(q.params[1])
                  /\ Len(q.where) = 2 =>
                       (ParamIsInt(q.params[2]) /\ r.parent = ParamInt(q.params[2]))}
    IN  SortRows(hit, [r \in hit |-> r.id])

\* SELECT ... FROM <child table> WHERE <parentCol> = ? ORDER BY <name>
ChildRows(q) ==
    LET hit == {r \in MasterTable(q.table) :
                  ParamIsInt(q.params[1]) /\ r.parent = ParamInt(q.params[1])}
    IN  SortRows(hit, [r \in hit |-> NameRank(r.name) * 10 + r.id])

KpiColumnMatches(row, col, v) ==
    CASE col \in {"year", "Year"} -> ParamIsInt(v) /\ row.Year = ParamInt(v)
      [] col \in {"CircleID", "DivisionID", "SubdivisionID", "SectionID"} ->
            ParamIsInt(v) /\ row[col] = ParamInt(v)
      [] col = "circle" -> v.t = "string" /\ NameOfId("Circles", row.CircleID) = v
      [] col = "division" -> v.t = "string" /\ NameOfId("Divisions", row.DivisionID) = v
      [] col = "subdivision" ->
            v.t = "string" /\ NameOfId("Subdivisions", row.SubdivisionID) = v
      [] col = "section" -> v.t = "string" /\ NameOfId("Sections", row.SectionID) = v

\* the rows of a KPI table that satisfy every clause of the WHERE
KpiSelect(q) ==
    LET hit == {r \in KpiRows :
                  \A i \in 1..Len(q.where) : KpiColumnMatches(r, q.where[i], q.params[i])}
    IN  SortRows(hit, [r \in hit |-> r.k])

\* a NaN bound as a number is sent as the bare word NaN, which MySQL rejects
QueryIsMalformed(q) ==
    \E i \in 1..Len(q.params) : q.params[i] = Num(<<"NaN">>)

QueryRows(q) ==
    CASE q.op = "geo" -> GeoLookup(q)
      [] q.op = "children" -> ChildRows(q)
      [] q.op = "kpi" -> KpiSelect(q)
      [] OTHER -> <<>>

(***************************************************************************)
(* validateAndGetGeoName, up to its await and after it                     *)
(***************************************************************************)
Returned(value) == [k |-> "return", value |-> value, msg |-> <<>>, q |-> NoQuery]
Thrown(msg) == [k |-> "throw", value |-> Undefined, msg |-> msg, q |-> NoQuery]
Awaiting(q) == [k |-> "query", value |-> Undefined, msg |-> <<>>, q |-> q]

InvalidIdFormat(idCol, id) ==
    <<"Invalid", "ID", "format", "for", idCol, ":">> \o String(id)
        \o <<".", "Must", "be", "an", "integer", ".">>

InvalidParentIdFormat(parentIdCol, parentId) ==
    <<"Invalid", "parent", "ID", "format", "for", parentIdCol, ":">> \o String(parentId)
        \o <<".", "Must", "be", "an", "integer", ".">>

DoesNotExist(idCol, id) ==
    <<"Invalid", idCol, ":">> \o String(id) \o <<"does", "not", "exist", ".">>

DoesNotBelong(idCol, id, parentIdCol, parentId) ==
    <<"Invalid", idCol, ":">> \o String(id)
        \o <<"does", "not", "exist", "or", "does", "not", "belong", "to", parentIdCol, ":">>
        \o String(parentId) \o <<".">>

GeoQuery(id, tableName, idCol, nameCol, withParent, parentId, parentIdCol) ==
    Query("geo", tableName,
          <<"SELECT", nameCol, "FROM", tableName, "WHERE", idCol, "=", "?">>
              \o (IF withParent THEN <<"AND", parentIdCol, "=", "?">> ELSE <<>>),
          <<idCol>> \o (IF withParent THEN <<parentIdCol>> ELSE <<>>),
          <<NumberValue(parseInt(id))>>
              \o (IF withParent THEN <<NumberValue(parseInt(parentId))>> ELSE <<>>))

\* server.js: parentId is checked when it is neither undefined nor null
server_parentGiven(parentId) == parentId # Undefined /\ parentId # Null

server_validateAndGetGeoName(id, tableName, idCol, nameCol, parentId, parentIdCol) ==
    IF id = Undefined THEN Returned(Null)
    ELSE IF NotIntegerFormat(id) THEN Thrown(InvalidIdFormat(idCol, id))
    ELSE IF server_parentGiven(parentId) /\ NotIntegerFormat(parentId)
         THEN Thrown(InvalidParentIdFormat(parentIdCol, parentId))
    ELSE Awaiting(GeoQuery(id, tableName, idCol, nameCol,
                           server_parentGiven(parentId), parentId, parentIdCol))

server_validateAndGetGeoName_rows(rows, id, idCol, parentId, parentIdCol) ==
    IF Len(rows) = 0
    THEN IF server_parentGiven(parentId)
         THEN Thrown(DoesNotBelong(idCol, id, parentIdCol, parentId))
         ELSE Thrown(DoesNotExist(idCol, id))
    ELSE Returned(rows[1].name)

\* part_001: parentId = null by default, so undefined becomes null
part001_parentGiven(parentId) == parentId # Undefined /\ parentId # Null

part001_validateAndGetGeoName(id, tableName, idCol, nameCol, parentId, parentIdCol) ==
    IF id = Undefined \/ id = Null THEN Returned(Null)
    ELSE IF NotIntegerFormat(id) THEN Thrown(InvalidIdFormat(idCol, id))
    ELSE IF part001_parentGiven(parentId) /\ NotIntegerFormat(parentId)
         THEN Thrown(InvalidParentIdFormat(parentIdCol, parentId))
    ELSE Awaiting(GeoQuery(id, tableName, idCol, nameCol,
                           part001_parentGiven(parentId), parentId, parentIdCol))

\* the message names the parent only when parentId is truthy
part001_validateAndGetGeoName_rows(rows, id, idCol, parentId, parentIdCol) ==
    IF Len(rows) = 0
    THEN IF Truthy(parentId)
         THEN Thrown(DoesNotBelong(idCol, id, parentIdCol, parentId))
         ELSE Thrown(DoesNotExist(idCol, id))
    ELSE Returned(rows[1].name)

(***************************************************************************)
(* Requests and the state of one handler invocation                        *)
(***************************************************************************)
NoRoute == [src |-> "", kind |-> "", table |-> ""]
NoParams ==
    [circleId |-> Undefined, divisionId |-> Undefined, subdivisionId |-> Undefined,
     sectionId |-> Undefined, year |-> Undefined,
     district_id |-> Undefined, substation_id |-> Undefined, feeder_id |-> Undefined]

LevelKey == <<"CircleID", "DivisionID", "SubdivisionID", "SectionID">>
LevelStem == <<"Circle", "Division", "Subdivision", "Section">>
Levels == 1..4

\* req.query.<filter of level l>
Filter(query, l) ==
    CASE l = 1 -> query.circleId
      [] l = 2 -> query.divisionId
      [] l = 3 -> query.subdivisionId
      [] l = 4 -> query.sectionId

IdleSlot ==
    [pc |-> "idle", route |-> NoRoute, query |-> NoParams, stage |-> 0,
     names |-> [l \in Levels |-> Undefined], where |-> <<>>, params |-> <<>>,
     pending |-> NoQuery, log |-> <<>>, dbErr |-> <<>>, resp |-> <<>>]

Incoming(route, query) == [IdleSlot EXCEPT !.route = route, !.query = query]

ErrorBody(msg) == [fields |-> {"error"}, error |-> msg, details |-> <<>>, rows |-> <<>>]
ErrorDetailsBody(msg, details) ==
    [fields |-> {"error", "details"}, error |-> msg, details |-> details, rows |-> <<>>]
RowsBody(rows) == [fields |-> {}, error |-> <<>>, details |-> <<>>, rows |-> rows]

\* res.status(status).json(body)
Send(sl, status, body) ==
    [sl EXCEPT !.pc = "done", !.pending = NoQuery,
               !.resp = Append(@, [status |-> status, body |-> body])]

\* await mysqlPool.query(q.text, q.params)
Await(sl, stage, q) ==
    [sl EXCEPT !.pc = "await", !.stage = stage, !.pending = q, !.log = Append(@, q)]

\* the message a rejected call carries
RejectionsOf(q) ==
    IF QueryIsMalformed(q)
    THEN {<<"Unknown", "column", "NaN", "in", "where", "clause">>}
    ELSE IF q.op = "years"
    THEN DbErrors \cup {<<"Unknown", "column", q.where[1], "in", "field", "list">>}
    ELSE DbErrors

(***************************************************************************)
(* server.js: fetchKPI                                                     *)
(***************************************************************************)
server_KpiRoutes ==
    { [src |-> "server", kind |-> "kpi", table |-> "billing_efficiency"] }

\* fetchKPI(tableName, labelKey, valueKey) as the routes register it
server_labelKey(tableName) == IF tableName = "billing_rate" THEN "section" ELSE "month"
server_valueKey(tableName) ==
    CASE tableName = "billing_rate" -> "rate"
      [] tableName \in {"unbilled_consumers", "arrear_ratio"} -> "percent"
      [] OTHER -> "value"

\* a catch that sends the failed call once more
server_fetchKPI_catch_retry(sl, msg) ==
    IF Len(sl.dbErr) = 1
    THEN Await(sl, sl.stage, sl.pending)
    ELSE Send(sl, 500, ErrorBody(<<"Failed", "to", "fetch", "KPI", ":", sl.route.table>>))

server_fetchKPI_catch(sl, msg) ==
    IF \/ startsWith(msg, <<"Invalid", "ID", "format">>)
       \/ startsWith(msg, <<"Invalid", "CircleID">>)
       \/ startsWith(msg, <<"Invalid", "DivisionID">>)
       \/ startsWith(msg, <<"Invalid", "SubdivisionID">>)
       \/ startsWith(msg, <<"Invalid", "SectionID">>)
       \/ includes(msg, "required")
    THEN Send(sl, 400, ErrorBody(msg))
    ELSE Send(sl, 500, ErrorBody(<<"Failed", "to", "fetch", "KPI", ":", sl.route.table>>))

\* the parentId and parentIdCol arguments of the call for level l
server_KpiParent(query, l) == IF l = 1 THEN Undefined ELSE Filter(query, l - 1)
server_KpiParentCol(l) == IF l = 1 THEN "undefined" ELSE LevelKey[l - 1]

server_KpiClause == <<"circle", "division", "subdivision", "section">>

\* the clause and parameter of level l: circle always, the others when the name is truthy
server_KpiAdds(sl, l) == l = 1 \/ Truthy(sl.names[l])

RECURSIVE server_KpiWhere(_, _)
server_KpiWhere(sl, l) ==
    IF l > 4 THEN <<>>
    ELSE (IF server_KpiAdds(sl, l) THEN <<[col |-> server_KpiClause[l], v |-> sl.names[l]]>>
                                   ELSE <<>>)
         \o server_KpiWhere(sl, l + 1)

server_KpiQuery(sl) ==
    LET rest == server_KpiWhere(sl, 2)
        cl == <<[col |-> "circle", v |-> sl.names[1]],
                [col |-> "year", v |-> NumberValue(parseInt(sl.query.year))]>> \o rest
        whereClauses == [i \in 1..Len(cl) |-> <<cl[i].col, "=", "?">>]
        labelKey == server_labelKey(sl.route.table)
    IN  Query("kpi", sl.route.table,
              <<"SELECT", labelKey, "AS", "month_or_section_label", ",", "year", ",",
                server_valueKey(sl.route.table), "AS", "value", ",",
                "CASE", "WHEN", "'", labelKey, "'", "=", "'section'", "THEN", labelKey,
                "ELSE", "CONCAT", "(", labelKey, ",", "' '", ",", "year", ")", "END",
                "AS", "label", "FROM", sl.route.table>>
                \o (IF Len(whereClauses) > 0
                    THEN <<"WHERE">> \o join(whereClauses, "AND") ELSE <<>>)
                \o <<"ORDER", "BY", "year", ",", "month_or_section_label", ";">>,
              [i \in 1..Len(cl) |-> cl[i].col],
              [i \in 1..Len(cl) |-> cl[i].v])

\* rows.map(row => ({label: row.label, value: row.value}))
server_formatted(sl, rows) ==
    [i \in 1..Len(rows) |->
        [label |-> IF server_labelKey(sl.route.table) = "section"
                   THEN String(NameOfId("Sections", rows[i].SectionID))
                   ELSE <<rows[i].Month, " ">> \o NatToString(rows[i].Year),
         value |-> rows[i].k]]

RECURSIVE server_fetchKPI_from(_, _)
\* the handler from the validation of level l on, up to its next await or its response
server_fetchKPI_from(sl, l) ==
    IF l > 4 THEN Await(sl, 5, server_KpiQuery(sl))
    ELSE IF l > 1 /\ ~Truthy(Filter(sl.query, l)) THEN server_fetchKPI_from(sl, l + 1)
    ELSE LET v == server_validateAndGetGeoName(
                      Filter(sl.query, l), LevelStem[l] \o "s", LevelKey[l],
                      LevelStem[l] \o "Name", server_KpiParent(sl.query, l),
                      server_KpiParentCol(l))
         IN  CASE v.k = "throw" -> server_fetchKPI_catch(sl, v.msg)
               [] v.k = "return" ->
                     server_fetchKPI_from([sl EXCEPT !.names[l] = v.value], l + 1)
               [] v.k = "query" -> Await(sl, l, v.q)

server_fetchKPI_begin(sl) ==
    IF ~Truthy(sl.query.circleId)
    THEN Send(sl, 400, ErrorBody(<<"circleId", "is", "required", "for", "KPI", "data", ".">>))
    ELSE IF ~Truthy(sl.query.year)
    THEN Send(sl, 400, ErrorBody(<<"year", "is", "required", "for", "KPI", "data", ".">>))
    ELSE IF NotIntegerFormat(sl.query.year)
    THEN Send(sl, 400, ErrorBody(<<"Invalid", "year", "format", ":">> \o String(sl.query.year)
                                   \o <<".", "Must", "be", "an", "integer", ".">>))
    ELSE server_fetchKPI_from(sl, 1)

server_fetchKPI_resume(sl, rows) ==
    IF sl.stage = 5 THEN Send(sl, 200, RowsBody(server_formatted(sl, rows)))
    ELSE LET l == sl.stage
             v == server_validateAndGetGeoName_rows(
                      rows, Filter(sl.query, l), LevelKey[l],
                      server_KpiParent(sl.query, l), server_KpiParentCol(l))
         IN  IF v.k = "throw" THEN server_fetchKPI_catch(sl, v.msg)
             ELSE server_fetchKPI_from([sl EXCEPT !.names[l] = v.value], l + 1)

(***************************************************************************)
(* part_001: fetchKPI                                                      *)
(***************************************************************************)
part001_KpiRoutes ==
    { [src |-> "part001", kind |-> "kpi", table |-> "DTHealthKPI"] }

\* fetchKPI(table, columns) as the routes register it
part001_columns(table) ==
    CASE table = "DTHealthKPI" ->
            <<"Year", "TotalFailures", "FailureRate", "AvgRepairCost", "AvgHealthIndex">>
      [] table = "billing_rate" -> <<"Section", "Year", "Rate">>
      [] table \in {"unbilled_consumers", "arrear_ratio"} -> <<"Month", "Year", "Percent">>
      [] OTHER -> <<"Month", "Year", "Value">>

\* catch (err) { res.status(400).json({ error: err.message }) }
part001_fetchKPI_catch(sl, msg) == Send(sl, 400, ErrorBody(msg))

part001_KpiQuery(sl) ==
    LET clauses == [i \in 1..Len(sl.where) |-> <<sl.where[i], "=", "?">>]
        cols == part001_columns(sl.route.table)
    IN  Query("kpi", sl.route.table,
              <<"SELECT">> \o join([i \in 1..Len(cols) |-> <<cols[i]>>], ",")
                  \o <<"FROM", sl.route.table, "WHERE">> \o join(clauses, "AND"),
              sl.where, sl.params)

\* where and params as arrays of the module, shared by the requests in flight
part001_KpiPush_shared(sl, l) ==
    LET inflight == {t \in DOMAIN h : h[t].pc = "await" /\ h[t].route.src = "part001"}
        top == IF inflight = {} THEN sl
               ELSE h[CHOOSE t \in inflight :
                        \A u \in inflight : Len(h[t].where) >= Len(h[u].where)]
    IN  [sl EXCEPT !.where = Append(top.where, LevelKey[l]),
                   !.params = Append(top.params, Filter(sl.query, l))]

\* where.push(`${key} = ?`); params.push(filters[key])
part001_KpiPush(sl, l) ==
    [sl EXCEPT !.where = Append(@, LevelKey[l]),
               !.params = Append(@, Filter(sl.query, l))]

RECURSIVE part001_fetchKPI_from(_, _)
\* the loop over the keys from level l on, up to the next await or the response
part001_fetchKPI_from(sl, l) ==
    IF l > 4 THEN Await(sl, 5, part001_KpiQuery(sl))
    ELSE IF ~Truthy(Filter(sl.query, l)) THEN part001_fetchKPI_from(sl, l + 1)
    ELSE LET v == part001_validateAndGetGeoName(
                      Filter(sl.query, l), LevelStem[l] \o "s", LevelKey[l],
                      LevelStem[l] \o "Name", Null, "null")
         IN  CASE v.k = "throw" -> part001_fetchKPI_catch(sl, v.msg)
               [] v.k = "return" -> part001_fetchKPI_from(part001_KpiPush(sl, l), l + 1)
               [] v.k = "query" -> Await(sl, l, v.q)

part001_fetchKPI_begin(sl) ==
    IF ~Truthy(sl.query.circleId) \/ ~Truthy(sl.query.year)
    THEN Send(sl, 400, ErrorBody(<<"circleId", "and", "year", "are", "required", ".">>))
    ELSE part001_fetchKPI_from(
             [sl EXCEPT !.where = <<"Year">>,
                        !.params = <<NumberValue(parseInt(sl.query.year))>>], 1)

part001_fetchKPI_resume(sl, rows) ==
    IF sl.stage = 5
    THEN Send(sl, 200, RowsBody([i \in 1..Len(rows) |->
                                   [cols |-> part001_columns(sl.route.table),
                                    value |-> rows[i].k]]))
    ELSE LET l == sl.stage
             v == part001_validateAndGetGeoName_rows(
                      rows, Filter(sl.query, l), LevelKey[l], Null, "null")
         IN  IF v.k = "throw" THEN part001_fetchKPI_catch(sl, v.msg)
             ELSE part001_fetchKPI_from(part001_KpiPush(sl, l), l + 1)

(***************************************************************************)
(* /api/filters/divisions, /subdivisions, /sections.  The route of parent  *)
(* level c lists the rows of level c + 1.                                  *)
(***************************************************************************)
ParamName == <<"circleId", "divisionId", "subdivisionId", "sectionId">>
ChildPlural == <<"divisions", "subdivisions", "sections">>

ChildRoutes(src) ==
    { [src |-> src, kind |-> "children", table |-> LevelStem[c + 1] \o "s"] : c \in 1..3 }

ParentLevel(route) == CHOOSE c \in 1..3 : route.table = LevelStem[c + 1] \o "s"

\* SELECT <child>ID AS id, <child>Name AS name [, <parent>ID] FROM <child>s
\*   WHERE <parent>ID = ? ORDER BY <child>Name;
ChildQuery(sl, withParentColumn) ==
    LET c == ParentLevel(sl.route)
    IN  Query("children", sl.route.table,
              <<"SELECT", LevelKey[c + 1], "AS", "id", ",",
                LevelStem[c + 1] \o "Name", "AS", "name">>
                  \o (IF withParentColumn THEN <<",", LevelKey[c]>> ELSE <<>>)
                  \o <<"FROM", sl.route.table, "WHERE", LevelKey[c], "=", "?",
                       "ORDER", "BY", LevelStem[c + 1] \o "Name", ";">>,
              <<LevelKey[c]>>, <<Filter(sl.query, c)>>)

ChildJson(rows, withParentColumn) ==
    [i \in 1..Len(rows) |->
        [id |-> rows[i].id, name |-> rows[i].name,
         parent |-> IF withParentColumn THEN <<rows[i].parent>> ELSE <<>>]]

server_children_catch(sl, msg) ==
    IF \/ startsWith(msg, <<"Invalid", "ID", "format">>)
       \/ startsWith(msg, <<"Invalid", LevelKey[ParentLevel(sl.route)]>>)
    THEN Send(sl, 400, ErrorBody(msg))
    ELSE Send(sl, 500, ErrorBody(<<"Failed", "to", "fetch",
                                   ChildPlural[ParentLevel(sl.route)]>>))

\* the 400 of a missing name sent without returning from the handler
server_children_named_noReturn(sl, name) ==
    IF ~Truthy(name)
    THEN Await(Send(sl, 400, ErrorBody(<<ParamName[ParentLevel(sl.route)], "is", "required",
                                         "and", "must", "be", "valid">>)),
               5, ChildQuery(sl, TRUE))
    ELSE Await(sl, 5, ChildQuery(sl, TRUE))

\* if (!circleName) return 400; else the list query
server_children_named(sl, name) ==
    IF ~Truthy(name)
    THEN Send(sl, 400, ErrorBody(<<ParamName[ParentLevel(sl.route)], "is", "required",
                                   "and", "must", "be", "valid">>))
    ELSE Await(sl, 5, ChildQuery(sl, TRUE))

server_children_begin(sl) ==
    LET c == ParentLevel(sl.route)
        v == server_validateAndGetGeoName(
                 Filter(sl.query, c), LevelStem[c] \o "s", LevelKey[c],
                 LevelStem[c] \o "Name", Undefined, "undefined")
    IN  CASE v.k = "throw" -> server_children_catch(sl, v.msg)
          [] v.k = "return" -> server_children_named(sl, v.value)
          [] v.k = "query" -> Await(sl, 1, v.q)

server_children_resume(sl, rows) ==
    IF sl.stage = 5 THEN Send(sl, 200, RowsBody(ChildJson(rows, TRUE)))
    ELSE LET c == ParentLevel(sl.route)
             v == server_validateAndGetGeoName_rows(
                      rows, Filter(sl.query, c), LevelKey[c], Undefined, "undefined")
         IN  IF v.k = "throw" THEN server_children_catch(sl, v.msg)
             ELSE server_children_named(sl, v.value)

part001_children_catch(sl, msg) == Send(sl, 400, ErrorBody(msg))

part001_children_begin(sl) ==
    LET c == ParentLevel(sl.route)
        v == part001_validateAndGetGeoName(
                 Filter(sl.query, c), LevelStem[c] \o "s", LevelKey[c],
                 LevelStem[c] \o "Name", Null, "null")
    IN  IF ~Truthy(Filter(sl.query, c))
        THEN Send(sl, 400, ErrorBody(<<ParamName[c], "is", "required", ".">>))
        ELSE CASE v.k = "throw" -> part001_children_catch(sl, v.msg)
               [] v.k = "return" -> Await(sl, 5, ChildQuery(sl, FALSE))
               [] v.k = "query" -> Await(sl, 1, v.q)

part001_children_resume(sl, rows) ==
    IF sl.stage = 5 THEN Send(sl, 200, RowsBody(ChildJson(rows, FALSE)))
    ELSE LET c == ParentLevel(sl.route)
             v == part001_validateAndGetGeoName_rows(
                      rows, Filter(sl.query, c), LevelKey[c], Null, "null")
         IN  IF v.k = "throw" THEN part001_children_catch(sl, v.msg)
             ELSE Await(sl, 5, ChildQuery(sl, FALSE))

(***************************************************************************)
(* server.js: /api/kpi/disputed-bills and /api/kpi/metering-status         *)
(***************************************************************************)
server_YearRoutes ==
    { [src |-> "server", kind |-> "yearKpi", table |-> "disputed_bills"],
      [src |-> "server", kind |-> "yearKpi", table |-> "metering_status"] }

server_yearKpi_columns(table) ==
    IF table = "disputed_bills" THEN <<"total", ",", "disputed">>
    ELSE <<"metered", ",", "unmetered">>

server_yearKpi_catch(sl, msg) ==
    IF startsWith(msg, <<"Invalid", "year", "format">>)
    THEN Send(sl, 400, ErrorBody(msg))
    ELSE Send(sl, 500, ErrorBody(<<"Failed", "to", "fetch", "KPI", ":", sl.route.table>>))

server_yearKpi_begin(sl) ==
    LET KpiName == IF sl.route.table = "disputed_bills" THEN "disputed-bills"
                   ELSE "metering-status"
    IN  IF ~Truthy(sl.query.year)
        THEN Send(sl, 400, ErrorBody(<<"year", "is", "required", "for", KpiName, "KPI", ".">>))
        ELSE IF NotIntegerFormat(sl.query.year)
        THEN Send(sl, 400, ErrorBody(<<"Invalid", "year", "format", ":">>
                                       \o String(sl.query.year)
                                       \o <<".", "Must", "be", "an", "integer", ".">>))
        ELSE Await(sl, 5,
                   Query("kpi", sl.route.table,
                         <<"SELECT", "month", ",", "year", ",">>
                             \o server_yearKpi_columns(sl.route.table)
                             \o <<"FROM", sl.route.table, "WHERE", "year", "=", "?",
                                  "ORDER", "BY", "year", ",", "month", ";">>,
                         <<"year">>, <<NumberValue(parseInt(sl.query.year))>>))

server_yearKpi_resume(sl, rows) ==
    Send(sl, 200, RowsBody([i \in 1..Len(rows) |->
                              [label |-> <<rows[i].Month, " ">> \o NatToString(rows[i].Year),
                               value |-> rows[i].k]]))

(***************************************************************************)
(* /api/filters/years and /api/filters/circles                             *)
(***************************************************************************)
YearsRoutes ==
    { [src |-> "server", kind |-> "years", table |-> "billing_efficiency"],
      [src |-> "part001", kind |-> "years", table |-> "BillingCollectionSummary"] }

YearsQuery_unordered(sl) ==
    IF sl.route.src = "server"
    THEN Query("years", sl.route.table,
               <<"SELECT", "DISTINCT", "year", "AS", "year_val", "FROM", sl.route.table, ";">>,
               <<"year">>, <<>>)
    ELSE Query("years", sl.route.table,
               <<"SELECT", "DISTINCT", "Year", "FROM", sl.route.table, ";">>,
               <<"Year">>, <<>>)

\* the text of the one query of the handler; its "where" names the column it reads
YearsQuery(sl) ==
    IF sl.route.src = "server"
    THEN Query("years", sl.route.table,
               <<"SELECT", "DISTINCT", "year", "AS", "year_val", "FROM", sl.route.table,
                 "ORDER", "BY", "year_val", "DESC", ";">>,
               <<"year">>, <<>>)
    ELSE Query("years", sl.route.table,
               <<"SELECT", "DISTINCT", "Year", "FROM", sl.route.table,
                 "ORDER", "BY", "Year", "DESC", ";">>,
               <<"Year">>, <<>>)

\* the results the database may give: one row per (distinct) year, in an order
\* the ORDER BY of the text allows; without ORDER BY any order
YearsResults(q) ==
    LET distinct == \E i \in 1..Len(q.text) : q.text[i] = "DISTINCT"
        desc == \E i \in 1..Len(q.text) : q.text[i] = "DESC"
        base == IF distinct THEN {<<r.Year, 0>> : r \in KpiRows}
                ELSE {<<r.Year, r.k>> : r \in KpiRows}
        n == Cardinality(base)
        orders == {f \in [1..n -> base] :
                     /\ \A i, j \in 1..n : i # j => f[i] # f[j]
                     /\ desc => \A i, j \in 1..n : i < j => f[i][1] >= f[j][1]}
    IN  { [i \in 1..n |-> f[i][1]] : f \in orders }

years_begin(sl) == Await(sl, 5, YearsQuery(sl))

\* rows.map(r => String(r.Year)); res.json(years)
years_resume(sl, rows) ==
    Send(sl, 200, RowsBody([i \in 1..Len(rows) |-> Str(NatToString(rows[i]))]))

years_catch(sl, msg) == Send(sl, 500, ErrorBody(<<"Failed", "to", "fetch", "years">>))

CirclesRoutes ==
    { [src |-> "server", kind |-> "circles", table |-> "Circles"],
      [src |-> "part001", kind |-> "circles", table |-> "Circles"] }

circles_begin(sl) ==
    Await(sl, 5,
          Query("circles", "Circles",
                <<"SELECT", "CircleID", "AS", "id", ",", "CircleName", "AS", "name",
                  "FROM", "Circles", "ORDER", "BY", "CircleName", ";">>,
                <<>>, <<>>))

CirclesRows == SortRows(Circles, [r \in Circles |-> NameRank(r.name) * 10 + r.id])

circles_resume(sl, rows) ==
    Send(sl, 200, RowsBody([i \in 1..Len(rows) |-> [id |-> rows[i].id, name |-> rows[i].name]]))

circles_catch(sl, msg) ==
    IF sl.route.src = "server"
    THEN Send(sl, 500, ErrorBody(<<"Failed", "to", "fetch", "circles">>))
    ELSE Send(sl, 500, ErrorDetailsBody(<<"Failed", "to", "fetch", "circles">>, msg))

(***************************************************************************)
(* server.js, the routes over the district/substation/feeder schema (pg):  *)
(* /api/energy, /api/districts, /api/substations, /api/feeders and         *)
(* /api/energy_data                                                        *)
(***************************************************************************)
PgRoutes ==
    { [src |-> "pg", kind |-> "energy", table |-> "public.dtrs"],
      [src |-> "pg", kind |-> "districts", table |-> "public.districts"],
      [src |-> "pg", kind |-> "substations", table |-> "public.substations"],
      [src |-> "pg", kind |-> "feeders", table |-> "public.feeders"],
      [src |-> "pg", kind |-> "energy_data", table |-> "public.dtrs"] }

\* the transformers with the feeder, substation and district above each
EnergyRows ==
    { [dtr |-> 1, feeder |-> 3, substation |-> 2, district |-> 1],
      [dtr |-> 2, feeder |-> 4, substation |-> 2, district |-> 1],
      [dtr |-> 3, feeder |-> 5, substation |-> 6, district |-> 7] }

\* the level a column of a WHERE clause compares
PgColumnLevel(col) ==
    CASE col \in {"public.districts.id", "district_id"} -> "district"
      [] col \in {"public.substations.id", "substation_id"} -> "substation"
      [] col \in {"public.feeders.id", "feeder_id"} -> "feeder"

\* `$${n}`
Placeholder(n) == "$" \o DigitChar(n)

\* a clause is written <column> = $k and compares with the k-th bound parameter
ClausePlaceholder(clause) == CHOOSE k \in 1..9 : Placeholder(k) = clause[3]

\* the server refuses a statement whose placeholders and parameters do not
\* match, and a parameter that is no integer where an integer is compared
PgIsMalformed(q) ==
    \/ \E i \in 1..Len(q.where) : ClausePlaceholder(q.where[i]) > Len(q.params)
    \/ \E k \in 1..Len(q.params) :
          \A i \in 1..Len(q.where) : ClausePlaceholder(q.where[i]) # k
    \/ \E k \in 1..Len(q.params) : NotIntegerFormat(q.params[k])

PgSelect(q) ==
    LET hit == {r \in EnergyRows :
                  \A i \in 1..Len(q.where) :
                      r[PgColumnLevel(q.where[i][1])]
                          = ParamInt(q.params[ClausePlaceholder(q.where[i])])}
        level == CASE q.table = "public.districts" -> "district"
                   [] q.table = "public.substations" -> "substation"
                   [] q.table = "public.feeders" -> "feeder"
                   [] OTHER -> "dtr"
        ids == {r[level] : r \in hit}
    IN  SortRows(ids, [i \in ids |-> i])

EnergySelectText ==
    <<"WITH", "consumer_metrics", "AS", "...", "SELECT", "districts.name", "AS",
      "district_name", ",", "...", "FROM", "public.dtrs", "LEFT", "JOIN", "...">>

EnergyOrderText ==
    <<"ORDER", "BY", "district_name", ",", "substation_name", ",", "feeder_name", ",",
      "dtr_name", ";">>

\* whereClauses.push('public.districts.id = $1'); queryParams.push(district_id)
energy_district(sl) ==
    IF Truthy(sl.query.district_id)
    THEN [sl EXCEPT !.where = Append(@, <<"public.districts.id", "=", "$1">>),
                    !.params = Append(@, sl.query.district_id)]
    ELSE sl

\* a substation clause whose placeholder is written out as $2
energy_substation_second(sl) ==
    IF Truthy(sl.query.substation_id)
    THEN [sl EXCEPT !.where = Append(@, <<"public.substations.id", "=", "$2">>),
                    !.params = Append(@, sl.query.substation_id)]
    ELSE sl

energy_substation(sl) ==
    IF Truthy(sl.query.substation_id)
    THEN [sl EXCEPT !.where = Append(@, <<"public.substations.id", "=",
                                          Placeholder(Len(sl.params) + 1)>>),
                    !.params = Append(@, sl.query.substation_id)]
    ELSE sl

energy_feeder(sl) ==
    IF Truthy(sl.query.feeder_id)
    THEN [sl EXCEPT !.where = Append(@, <<"public.feeders.id", "=",
                                          Placeholder(Len(sl.params) + 1)>>),
                    !.params = Append(@, sl.query.feeder_id)]
    ELSE sl

energy_data_begin(sl) ==
    LET b == energy_feeder(energy_substation(energy_district(sl)))
        text == EnergySelectText
                  \o (IF Len(b.where) > 0 THEN <<"WHERE">> \o join(b.where, "AND")
                      ELSE <<>>)
                  \o EnergyOrderText
    IN  Await(b, 5, Query("pg", b.route.table, text, b.where, b.params))

\* /api/substations and /api/feeders: the rows under the required parent
pg_children_begin(sl) ==
    LET parent == IF sl.route.kind = "substations" THEN "district_id" ELSE "substation_id"
        v == sl.query[parent]
    IN  IF ~Truthy(v)
        THEN Send(sl, 400, ErrorBody(<<parent, "is", "required">>))
        ELSE Await(sl, 5,
                   Query("pg", sl.route.table,
                         <<"SELECT", "id", ",", "name", ",", parent, "FROM", sl.route.table,
                           "WHERE", parent, "=", "$1", "ORDER", "BY", "name", ";">>,
                         <<<<parent, "=", "$1">>>>, <<v>>))

pg_begin(sl) ==
    CASE sl.route.kind = "energy" ->
            Await(sl, 5, Query("pg", sl.route.table, EnergySelectText \o EnergyOrderText,
                               <<>>, <<>>))
      [] sl.route.kind = "districts" ->
            Await(sl, 5,
                  Query("pg", sl.route.table,
                        <<"SELECT", "id", ",", "name", "FROM", "public.districts",
                          "ORDER", "BY", "name", ";">>, <<>>, <<>>))
      [] sl.route.kind \in {"substations", "feeders"} -> pg_children_begin(sl)
      [] sl.route.kind = "energy_data" -> energy_data_begin(sl)

\* res.json(result.rows)
pg_resume(sl, rows) == Send(sl, 200, RowsBody(rows))

pg_catch(sl, msg) ==
    Send(sl, 500,
         ErrorBody(CASE sl.route.kind = "energy" -> <<"Failed", "to", "fetch", "energy", "data">>
                     [] sl.route.kind = "energy_data" ->
                          <<"Failed", "to", "fetch", "filtered", "energy", "data">>
                     [] OTHER -> <<"Failed", "to", "fetch", sl.route.kind>>))

(***************************************************************************)
(* Inputs                                                                  *)
(***************************************************************************)
MaxRequests == 1

Slots == {1, 2}

CircleIdValues == {Undefined, Str(<<"1">>), Str(<<"2">>), Str(<<"9">>), Str(<<"1", "a">>)}
DivisionIdValues == {Undefined, Str(<<>>), Str(<<"1">>), Str(<<"2">>), Str(<<"3">>)}
SubdivisionIdValues == {Undefined, Str(<<>>), Str(<<"1">>), Str(<<"2">>), Str(<<"3">>)}
SectionIdValues == {Undefined, Str(<<"1">>), Str(<<"2">>), Str(<<"1", ".", "5">>)}
YearValues ==
    {Undefined, Str(<<"2", "0", "2", "3">>), Str(<<"a", "b", "c", "d">>),
     Str(<<"2", "0", "2", "3", "a", "b", "c">>), Str(<<"2", "0", ".", "5">>)}

KpiQueries ==
    [circleId : CircleIdValues, divisionId : DivisionIdValues,
     subdivisionId : SubdivisionIdValues, sectionId : SectionIdValues,
     year : YearValues,
     district_id : {Undefined}, substation_id : {Undefined}, feeder_id : {Undefined}]

ParentIdValues ==
    {Undefined, Str(<<>>), Str(<<"1">>), Str(<<"2">>), Str(<<"3">>), Str(<<"9">>),
     Str(<<"1", "a">>)}

\* the query strings of a child-list request: only the parent's parameter matters
ChildQueries(route) ==
    LET c == ParentLevel(route)
    IN  { [NoParams EXCEPT ![ParamName[c]] = v] : v \in ParentIdValues }

YearQueries == { [NoParams EXCEPT !.year = v] : v \in YearValues }

PgQueries ==
    { [NoParams EXCEPT !.district_id = d, !.substation_id = u, !.feeder_id = f] :
        d \in {Undefined, Str(<<>>), Str(<<"1">>), Str(<<"x">>)},
        u \in {Undefined, Str(<<>>), Str(<<"2">>)},
        f \in {Undefined, Str(<<>>), Str(<<"3">>)} }

(***************************************************************************)
(* Actions: a request arrives and its handler runs to its first await or   *)
(* to its response; an awaited call resolves; an awaited call rejects      *)
(***************************************************************************)
Routed(s, src, kind) ==
    /\ h[s].pc = "await"
    /\ h[s].route.src = src
    /\ h[s].route.kind = kind

Resolvable(s) == ~QueryIsMalformed(h[s].pending)

Rejected(sl, msg) == [sl EXCEPT !.dbErr = Append(@, msg)]

server_fetchKPI(s, queries) ==
    /\ h[s].pc = "idle"
    /\ \E route \in server_KpiRoutes, query \in queries :
          h' = [h EXCEPT ![s] = server_fetchKPI_begin(Incoming(route, query))]
    /\ UNCHANGED <<served, vc>>

server_fetchKPI_resolved(s) ==
    /\ Routed(s, "server", "kpi")
    /\ Resolvable(s)
    /\ h' = [h EXCEPT ![s] = server_fetchKPI_resume(h[s], QueryRows(h[s].pending))]
    /\ UNCHANGED <<served, vc>>

server_fetchKPI_rejected(s) ==
    /\ Routed(s, "server", "kpi")
    /\ \E msg \in RejectionsOf(h[s].pending) :
          h' = [h EXCEPT ![s] = server_fetchKPI_catch(Rejected(h[s], msg), msg)]
    /\ UNCHANGED <<served, vc>>

part001_fetchKPI(s, queries) ==
    /\ h[s].pc = "idle"
    /\ \E route \in part001_KpiRoutes, query \in queries :
          h' = [h EXCEPT ![s] = part001_fetchKPI_begin(Incoming(route, query))]
    /\ UNCHANGED <<served, vc>>

part001_fetchKPI_resolved(s) ==
    /\ Routed(s, "part001", "kpi")
    /\ Resolvable(s)
    /\ h' = [h EXCEPT ![s] = part001_fetchKPI_resume(h[s], QueryRows(h[s].pending))]
    /\ UNCHANGED <<served, vc>>

part001_fetchKPI_rejected(s) ==
    /\ Routed(s, "part001", "kpi")
    /\ \E msg \in RejectionsOf(h[s].pending) :
          h' = [h EXCEPT ![s] = part001_fetchKPI_catch(Rejected(h[s], msg), msg)]
    /\ UNCHANGED <<served, vc>>

server_children(s) ==
    /\ h[s].pc = "idle"
    /\ \E route \in ChildRoutes("server") : \E query \in ChildQueries(route) :
          h' = [h EXCEPT ![s] = server_children_begin(Incoming(route, query))]
    /\ UNCHANGED <<served, vc>>

server_children_resolved(s) ==
    /\ Routed(s, "server", "children")
    /\ h' = [h EXCEPT ![s] = server_children_resume(h[s], QueryRows(h[s].pending))]
    /\ UNCHANGED <<served, vc>>

server_children_rejected(s) ==
    /\ Routed(s, "server", "children")
    /\ \E msg \in RejectionsOf(h[s].pending) :
          h' = [h EXCEPT ![s] = server_children_catch(Rejected(h[s], msg), msg)]
    /\ UNCHANGED <<served, vc>>

part001_children(s) ==
    /\ h[s].pc = "idle"
    /\ \E route \in ChildRoutes("part001") : \E query \in ChildQueries(route) :
          h' = [h EXCEPT ![s] = part001_children_begin(Incoming(route, query))]
    /\ UNCHANGED <<served, vc>>

part001_children_resolved(s) ==
    /\ Routed(s, "part001", "children")
    /\ h' = [h EXCEPT ![s] = part001_children_resume(h[s], QueryRows(h[s].pending))]
    /\ UNCHANGED <<served, vc>>

part001_children_rejected(s) ==
    /\ Routed(s, "part001", "children")
    /\ \E msg \in RejectionsOf(h[s].pending) :
          h' = [h EXCEPT ![s] = part001_children_catch(Rejected(h[s], msg), msg)]
    /\ UNCHANGED <<served, vc>>

server_yearKpi(s) ==
    /\ h[s].pc = "idle"
    /\ \E route \in server_YearRoutes, query \in YearQueries :
          h' = [h EXCEPT ![s] = server_yearKpi_begin(Incoming(route, query))]
    /\ UNCHANGED <<served, vc>>

server_yearKpi_resolved(s) ==
    /\ Routed(s, "server", "yearKpi")
    /\ h' = [h EXCEPT ![s] = server_yearKpi_resume(h[s], QueryRows(h[s].pending))]
    /\ UNCHANGED <<served, vc>>

server_yearKpi_rejected(s) ==
    /\ Routed(s, "server", "yearKpi")
    /\ \E msg \in RejectionsOf(h[s].pending) :
          h' = [h EXCEPT ![s] = server_yearKpi_catch(Rejected(h[s], msg), msg)]
    /\ UNCHANGED <<served, vc>>

years(s) ==
    /\ h[s].pc = "idle"
    /\ \E route \in YearsRoutes :
          h' = [h EXCEPT ![s] = years_begin(Incoming(route, NoParams))]
    /\ UNCHANGED <<served, vc>>

years_resolved(s) ==
    /\ h[s].pc = "await"
    /\ h[s].route.kind = "years"
    /\ \E rows \in YearsResults(h[s].pending) :
          h' = [h EXCEPT ![s] = years_resume(h[s], rows)]
    /\ UNCHANGED <<served, vc>>

years_rejected(s) ==
    /\ h[s].pc = "await"
    /\ h[s].route.kind = "years"
    /\ \E msg \in RejectionsOf(h[s].pending) :
          h' = [h EXCEPT ![s] = years_catch(Rejected(h[s], msg), msg)]
    /\ UNCHANGED <<served, vc>>

circles(s) ==
    /\ h[s].pc = "idle"
    /\ \E route \in CirclesRoutes :
          h' = [h EXCEPT ![s] = circles_begin(Incoming(route, NoParams))]
    /\ UNCHANGED <<served, vc>>

circles_resolved(s) ==
    /\ h[s].pc = "await"
    /\ h[s].route.kind = "circles"
    /\ h' = [h EXCEPT ![s] = circles_resume(h[s], CirclesRows)]
    /\ UNCHANGED <<served, vc>>

circles_rejected(s) ==
    /\ h[s].pc = "await"
    /\ h[s].route.kind = "circles"
    /\ \E msg \in RejectionsOf(h[s].pending) :
          h' = [h EXCEPT ![s] = circles_catch(Rejected(h[s], msg), msg)]
    /\ UNCHANGED <<served, vc>>

pg(s) ==
    /\ h[s].pc = "idle"
    /\ \E route \in PgRoutes, query \in PgQueries :
          h' = [h EXCEPT ![s] = pg_begin(Incoming(route, query))]
    /\ UNCHANGED <<served, vc>>

pg_resolved(s) ==
    /\ Routed(s, "pg", h[s].route.kind)
    /\ ~PgIsMalformed(h[s].pending)
    /\ h' = [h EXCEPT ![s] = pg_resume(h[s], PgSelect(h[s].pending))]
    /\ UNCHANGED <<served, vc>>

pg_rejected(s) ==
    /\ Routed(s, "pg", h[s].route.kind)
    /\ \E msg \in IF PgIsMalformed(h[s].pending)
                   THEN {<<"invalid", "statement", "or", "parameter">>}
                   ELSE DbErrors :
          h' = [h EXCEPT ![s] = pg_catch(Rejected(h[s], msg), msg)]
    /\ UNCHANGED <<served, vc>>

\* the response is out and the slot takes the next request
NextRequest(s) ==
    /\ h[s].pc = "done"
    /\ served < MaxRequests
    /\ served' = served + 1
    /\ h' = [h EXCEPT ![s] = IdleSlot]
    /\ UNCHANGED vc

IdleCall ==
    [pc |-> "idle", src |-> "", level |-> 0, id |-> Undefined, parentId |-> Undefined,
     pending |-> NoQuery, log |-> <<>>, dbErr |-> <<>>, out |-> Returned(Undefined)]

Init ==
    /\ h = [s \in Slots |-> IdleSlot]
    /\ served = 0
    /\ vc = IdleCall

Handle(s) ==
    \/ server_fetchKPI(s, KpiQueries)
    \/ server_fetchKPI_resolved(s)
    \/ server_fetchKPI_rejected(s)
    \/ part001_fetchKPI(s, KpiQueries)
    \/ part001_fetchKPI_resolved(s)
    \/ part001_fetchKPI_rejected(s)
    \/ server_children(s)
    \/ server_children_resolved(s)
    \/ server_children_rejected(s)
    \/ part001_children(s)
    \/ part001_children_resolved(s)
    \/ part001_children_rejected(s)
    \/ server_yearKpi(s)
    \/ server_yearKpi_resolved(s)
    \/ server_yearKpi_rejected(s)
    \/ years(s)
    \/ years_resolved(s)
    \/ years_rejected(s)
    \/ circles(s)
    \/ circles_resolved(s)
    \/ circles_rejected(s)
    \/ pg(s)
    \/ pg_resolved(s)
    \/ pg_rejected(s)
    \/ NextRequest(s)

\* one request at a time
Next == Handle(1)

Spec == Init /\ [][Next]_vars

\* two KPI requests in flight, their awaited calls interleaved
PairQueries ==
    [circleId : {Str(<<"1">>), Str(<<"2">>)},
     divisionId : {Undefined, Str(<<"1">>), Str(<<"3">>)},
     subdivisionId : {Undefined, Str(<<"3">>)},
     sectionId : {Undefined},
     year : {Str(<<"2", "0", "2", "3">>)},
     district_id : {Undefined}, substation_id : {Undefined}, feeder_id : {Undefined}]

NextPair ==
    \E s \in Slots :
        \/ server_fetchKPI(s, PairQueries)
        \/ server_fetchKPI_resolved(s)
        \/ server_fetchKPI_rejected(s)
        \/ part001_fetchKPI(s, PairQueries)
        \/ part001_fetchKPI_resolved(s)
        \/ part001_fetchKPI_rejected(s)

SpecPair == Init /\ [][NextPair]_vars

\* two calls of /api/filters/years over the same database
NextYears ==
    \E s \in Slots :
        \/ years(s)
        \/ years_resolved(s)
        \/ years_rejected(s)
        \/ NextRequest(s)

SpecYears == Init /\ [][NextYears]_vars

(***************************************************************************)
(* validateAndGetGeoName called on its own, with any id and parentId       *)
(***************************************************************************)
IdArguments ==
    {Undefined, Null, Str(<<>>), Str(<<"1">>), Str(<<"2">>), Str(<<"9">>), Str(<<"-", "1">>),
     Str(<<"1", "a">>), Str(<<"a", "1">>), Str(<<"1", ".", "5">>), Str(<<" ", "1">>),
     Str(<<"+", "1">>), Str(<<"0", "1">>), Str(<<"0", "x", "1">>),
     Num(<<"1">>), Num(<<"3">>), Num(<<"1", ".", "5">>), Num(<<"NaN">>)}

ParentArguments ==
    {Undefined, Null, Str(<<>>), Str(<<"0">>), Str(<<"1">>), Str(<<"2">>), Str(<<"2", "a">>),
     Str(<<"1", ".", "0">>), Num(<<"0">>), Num(<<"1">>), Num(<<"2">>)}

CallLevels == 2..4

Called(src, l, id, parentId, v) ==
    [IdleCall EXCEPT !.pc = IF v.k = "query" THEN "await" ELSE "done",
                     !.src = src, !.level = l, !.id = id, !.parentId = parentId,
                     !.pending = v.q,
                     !.log = IF v.k = "query" THEN <<v.q>> ELSE <<>>,
                     !.out = v]

server_validate ==
    /\ vc.pc = "idle"
    /\ \E l \in CallLevels, id \in IdArguments, parentId \in ParentArguments :
          vc' = Called("server", l, id, parentId,
                       server_validateAndGetGeoName(
                           id, LevelStem[l] \o "s", LevelKey[l], LevelStem[l] \o "Name",
                           parentId, LevelKey[l - 1]))
    /\ UNCHANGED <<h, served>>

server_validate_resolved ==
    /\ vc.pc = "await"
    /\ vc.src = "server"
    /\ vc' = [vc EXCEPT !.pc = "done", !.pending = NoQuery,
                        !.out = server_validateAndGetGeoName_rows(
                                    QueryRows(vc.pending), vc.id, LevelKey[vc.level],
                                    vc.parentId, LevelKey[vc.level - 1])]
    /\ UNCHANGED <<h, served>>

part001_validate ==
    /\ vc.pc = "idle"
    /\ \E l \in CallLevels, id \in IdArguments, parentId \in ParentArguments :
          vc' = Called("part001", l, id, parentId,
                       part001_validateAndGetGeoName(
                           id, LevelStem[l] \o "s", LevelKey[l], LevelStem[l] \o "Name",
                           parentId, LevelKey[l - 1]))
    /\ UNCHANGED <<h, served>>

part001_validate_resolved ==
    /\ vc.pc = "await"
    /\ vc.src = "part001"
    /\ vc' = [vc EXCEPT !.pc = "done", !.pending = NoQuery,
                        !.out = part001_validateAndGetGeoName_rows(
                                    QueryRows(vc.pending), vc.id, LevelKey[vc.level],
                                    vc.parentId, LevelKey[vc.level - 1])]
    /\ UNCHANGED <<h, served>>

\* the pool's promise rejects and the rejection passes through the validator
validate_rejected ==
    /\ vc.pc = "await"
    /\ \E msg \in RejectionsOf(vc.pending) :
          vc' = [vc EXCEPT !.pc = "done", !.pending = NoQuery,
                           !.dbErr = <<msg>>, !.out = Thrown(msg)]
    /\ UNCHANGED <<h, served>>

NextValidator ==
    \/ server_validate
    \/ server_validate_resolved
    \/ part001_validate
    \/ part001_validate_resolved
    \/ validate_rejected

SpecValidator == Init /\ [][NextValidator]_vars

(***************************************************************************)
(* Vocabulary of the properties                                            *)
(***************************************************************************)
AllDecimal(cs) == \A i \in 1..Len(cs) : cs[i] \in DecDigits

\* an optional minus sign and then decimal digits, nothing else
PlainInteger(v) ==
    /\ v.t \in {"string", "number"}
    /\ LET cs == v.s
           digits == IF cs # <<>> /\ cs[1] = "-" THEN Tail(cs) ELSE cs
       IN  digits # <<>> /\ AllDecimal(digits)

\* a plain integer written without leading zeros (and not -0)
CanonicalInteger(v) ==
    /\ PlainInteger(v)
    /\ LET cs == v.s
           digits == IF cs[1] = "-" THEN Tail(cs) ELSE cs
       IN  /\ digits[1] = "0" => Len(digits) = 1
           /\ digits = <<"0">> => cs[1] # "-"

RECURSIVE DecimalOf(_)
DecimalOf(digits) ==
    IF digits = <<>> THEN 0
    ELSE 10 * DecimalOf(SubSeq(digits, 1, Len(digits) - 1)) + DigitVal(digits[Len(digits)])

\* the integer a canonical value denotes
IntegerOf(v) ==
    IF v.s[1] = "-" THEN 0 - DecimalOf(Tail(v.s)) ELSE DecimalOf(v.s)

ContainsSeq(msg, sub) ==
    \E i \in 0..(Len(msg) - Len(sub)) : SubSeq(msg, i + 1, i + Len(sub)) = sub

Present(v) == v \notin {Undefined, Null}

RowsWithId(l, v) == {r \in MasterTable(LevelStem[l] \o "s") : r.id = IntegerOf(v)}

\* C7: validateAndGetGeoName, given a present id that is not an integer-valued
\* string or number, throws the invalid-ID-format error, whose message carries the
\* ID column and the raw value, without having issued a query; a supplied
\* parentId that is not integer-valued is refused in the same way before the
\* lookup is issued.
C7_InvalidFormatRefusedBeforeLookup ==
    vc.pc # "idle" =>
        /\ (vc.id.t \in {"string", "number"} /\ ~PlainInteger(vc.id)) =>
              /\ vc.pc = "done"
              /\ vc.log = <<>>
              /\ vc.out.k = "throw"
              /\ startsWith(vc.out.msg, <<"Invalid", "ID", "format">>)
              /\ ContainsSeq(vc.out.msg, <<LevelKey[vc.level], ":">> \o String(vc.id))
        /\ (CanonicalInteger(vc.id) /\ Present(vc.parentId) /\ ~PlainInteger(vc.parentId)) =>
              /\ vc.pc = "done"
              /\ vc.log = <<>>
              /\ vc.out.k = "throw"
              /\ startsWith(vc.out.msg, <<"Invalid", "parent", "ID", "format">>)
              /\ ContainsSeq(vc.out.msg,
                             <<LevelKey[vc.level - 1], ":">> \o String(vc.parentId))

\* C7 witness: a call with the id 1a has thrown without a lookup
C7_Witness ==
    /\ vc.pc = "done"
    /\ vc.id = Str(<<"1", "a">>)
    /\ vc.out.k = "throw"
    /\ vc.log = <<>>

Responded(s) == h[s].pc = "done"
Status(s) == h[s].resp[Len(h[s].resp)].status
Body(s) == h[s].resp[Len(h[s].resp)].body
IssuedKpi(s) == \E i \in 1..Len(h[s].log) : h[s].log[i].op = "kpi"
IsFetchKPI(s) == h[s].route.kind = "kpi"

\* C1: in fetchKPI, when two adjacent hierarchy filters are both supplied and the
\* lower-level ID exists but does not belong to the supplied higher-level ID, the
\* request is rejected and the KPI-table query is never executed.
C1_MismatchRejectedBeforeKpiQuery ==
    \A s \in Slots : IsFetchKPI(s) =>
        \A l \in 2..4 :
            LET hi == Filter(h[s].query, l - 1)
                lo == Filter(h[s].query, l)
            IN  ( /\ CanonicalInteger(h[s].query.year)
                  /\ CanonicalInteger(hi)
                  /\ CanonicalInteger(lo)
                  /\ \E r \in RowsWithId(l, lo) : r.parent # IntegerOf(hi) ) =>
                    /\ ~IssuedKpi(s)
                    /\ Responded(s) => Status(s) # 200

\* C2: a failure the data source did not cause (malformed or missing parameter,
\* unknown ID, hierarchy mismatch) is answered with 400 and {error: message},
\* never with 500, for every combination of present, absent and empty filters.
C2_ClientFailureIs400 ==
    \A s \in Slots :
        (Responded(s) /\ h[s].dbErr = <<>> /\ Status(s) # 200) =>
            /\ Status(s) = 400
            /\ Body(s).fields = {"error"}

\* C3: when a database call made for the request fails, the response is 500 and
\* never 400, whatever the text of the failure's message.
C3_DataSourceFailureIs500 ==
    \A s \in Slots :
        (Responded(s) /\ h[s].dbErr # <<>> /\ h[s].dbErr[1] \in DbErrors) =>
            Status(s) = 500

\* C4: a KPI request whose year is absent or not integer-formatted gets 400 (with
\* a message containing "year" when year is absent and circleId is given) and no
\* KPI-table query is executed for it.
C4_BadYearRejectedBeforeKpiQuery ==
    \A s \in Slots :
        ( /\ h[s].route.kind \in {"kpi", "yearKpi"}
          /\ h[s].query.year = Undefined \/ ~PlainInteger(h[s].query.year) ) =>
            /\ ~IssuedKpi(s)
            /\ Responded(s) =>
                  /\ Status(s) = 400
                  /\ (h[s].query.year = Undefined /\ Truthy(h[s].query.circleId)) =>
                        includes(Body(s).error, "year")

\* what the validator call fetchKPI makes for level l ends in, the database answering
KpiValidation(src, query, l) ==
    IF src = "server"
    THEN LET v == server_validateAndGetGeoName(
                      Filter(query, l), LevelStem[l] \o "s", LevelKey[l],
                      LevelStem[l] \o "Name", server_KpiParent(query, l),
                      server_KpiParentCol(l))
         IN  IF v.k # "query" THEN v
             ELSE server_validateAndGetGeoName_rows(
                      QueryRows(v.q), Filter(query, l), LevelKey[l],
                      server_KpiParent(query, l), server_KpiParentCol(l))
    ELSE LET v == part001_validateAndGetGeoName(
                      Filter(query, l), LevelStem[l] \o "s", LevelKey[l],
                      LevelStem[l] \o "Name", Null, "null")
         IN  IF v.k # "query" THEN v
             ELSE part001_validateAndGetGeoName_rows(
                      QueryRows(v.q), Filter(query, l), LevelKey[l], Null, "null")

\* the supplied filters whose validation fails
FailingLevels(src, query) ==
    {l \in Levels : Truthy(Filter(query, l)) /\ KpiValidation(src, query, l).k = "throw"}

\* position of a query in the hierarchy order: the lookup of level l is l, the KPI query 5
QueryLevel(q) ==
    IF q.op = "kpi" THEN 5 ELSE CHOOSE l \in Levels : q.table = LevelStem[l] \o "s"

\* C5: fetchKPI validates the supplied filters in the order circle, division,
\* subdivision, section; at the first one that fails validation the request
\* fails as a whole: no lookup for a lower level and no KPI query follows, the
\* error reported is that of this filter, and no rows are returned.
C5_FirstInvalidFilterFailsRequest ==
    \A s \in Slots :
        ( /\ IsFetchKPI(s)
          /\ h[s].dbErr = <<>>
          /\ Truthy(h[s].query.circleId)
          /\ CanonicalInteger(h[s].query.year) ) =>
            /\ \A i, j \in 1..Len(h[s].log) :
                  i < j => QueryLevel(h[s].log[i]) < QueryLevel(h[s].log[j])
            /\ FailingLevels(h[s].route.src, h[s].query) # {} =>
                  LET bad == FailingLevels(h[s].route.src, h[s].query)
                      f == CHOOSE l \in bad : \A o \in bad : l <= o
                  IN  /\ \A i \in 1..Len(h[s].log) : QueryLevel(h[s].log[i]) <= f
                      /\ Responded(s) =>
                            /\ Status(s) # 200
                            /\ Body(s).rows = <<>>
                            /\ Body(s).error =
                                   KpiValidation(h[s].route.src, h[s].query, f).msg

\* the WHERE column fetchKPI uses for the filter of level l
KpiColumn(src, l) == IF src = "server" THEN server_KpiClause[l] ELSE LevelKey[l]
KpiYearColumn(src) == IF src = "server" THEN "year" ELSE "Year"

\* C6: the KPI query holds the year clause plus exactly one equality clause for
\* each filter level that was supplied and passed validation, with one bound
\* parameter per clause in the same order; no validated filter is left out, also
\* when the validated node's name is empty or NULL.
C6_EveryValidatedFilterInWhere ==
    \A s \in Slots :
        (IsFetchKPI(s) /\ IssuedKpi(s) /\ CanonicalInteger(h[s].query.year)) =>
            LET q == h[s].log[Len(h[s].log)]
                src == h[s].route.src
                validated == {l \in Levels : Truthy(Filter(h[s].query, l))}
            IN  /\ {q.where[i] : i \in 1..Len(q.where)}
                      = {KpiYearColumn(src)} \cup {KpiColumn(src, l) : l \in validated}
                /\ Len(q.where) = 1 + Cardinality(validated)
                /\ Len(q.params) = Len(q.where)
                /\ \A i \in 1..Len(q.where) :
                      /\ q.where[i] = KpiYearColumn(src) =>
                            q.params[i] = Num(h[s].query.year.s)
                      /\ \A l \in validated :
                            q.where[i] = KpiColumn(src, l) =>
                                q.params[i] =
                                    IF src = "server"
                                    THEN NameOfId(LevelStem[l] \o "s",
                                                  IntegerOf(Filter(h[s].query, l)))
                                    ELSE Filter(h[s].query, l)

\* C9: a child-list request whose parent ID is well-formed and exists gets 200
\* with exactly the rows whose parent column equals that ID, ordered by name,
\* whatever the parent's display name is.
C9_ChildListOfExistingParent ==
    \A s \in Slots :
        ( /\ h[s].route.kind = "children"
          /\ Responded(s)
          /\ h[s].dbErr = <<>>
          /\ CanonicalInteger(Filter(h[s].query, ParentLevel(h[s].route)))
          /\ RowsWithId(ParentLevel(h[s].route),
                        Filter(h[s].query, ParentLevel(h[s].route))) # {} ) =>
            LET c == ParentLevel(h[s].route)
                children == {r \in MasterTable(h[s].route.table) :
                               r.parent = IntegerOf(Filter(h[s].query, c))}
                rows == Body(s).rows
            IN  /\ Status(s) = 200
                /\ {[id |-> rows[i].id, name |-> rows[i].name] : i \in 1..Len(rows)}
                      = {[id |-> r.id, name |-> r.name] : r \in children}
                /\ Len(rows) = Cardinality(children)
                /\ \A i, j \in 1..Len(rows) :
                      i < j => NameRank(rows[i].name) <= NameRank(rows[j].name)

\* a parameter is absent, present but empty, or present with a value
Category(v) ==
    IF v = Undefined THEN "absent" ELSE IF v.s = <<>> THEN "empty" ELSE "value"

SameShape(a, b) ==
    /\ a.route = b.route
    /\ \A l \in Levels : Category(Filter(a.query, l)) = Category(Filter(b.query, l))
    /\ Category(a.query.year) = Category(b.query.year)

\* the characters request values are made of
RequestCharacters == DecDigits \cup {"a", "b", "c", "d", ".", "-", "+", " ", "x"}

\* C10: the SQL text of every query depends only on the route and on which
\* parameters are present: no request-derived value appears in it, and two
\* requests to the same route with the same parameters present, whatever their
\* values, send identical SQL text.
C10_SqlTextFixedByRouteAndPresence ==
    /\ \A s \in Slots : \A i \in 1..Len(h[s].log) :
          \A k \in 1..Len(h[s].log[i].text) :
              h[s].log[i].text[k] \notin RequestCharacters
    /\ \A s, t \in Slots :
          (h[s].pc # "idle" /\ h[t].pc # "idle" /\ SameShape(h[s], h[t])) =>
              \A i \in 1..Len(h[s].log) :
                  i <= Len(h[t].log) => h[s].log[i].text = h[t].log[i].text

IsYears(s) == h[s].route.kind = "years"

\* C11: when the years query of /api/filters/years fails because the table lacks
\* its year column, the response is 500 and its body has a tablesChecked field
\* (listing the tables that were queried).
C11_SchemaMismatchNamesTablesChecked ==
    \A s \in Slots :
        ( /\ IsYears(s)
          /\ Responded(s)
          /\ h[s].dbErr # <<>>
          /\ startsWith(h[s].dbErr[1], <<"Unknown", "column">>) ) =>
            /\ Status(s) = 500
            /\ "tablesChecked" \in Body(s).fields

\* C12: two calls of /api/filters/years over the same database return the same
\* sequence, and every successful result is a sequence of year strings, strictly
\* descending, no value occurring twice.
C12_YearsIdempotentStrictlyDescending ==
    /\ \A s, t \in Slots :
          ( /\ IsYears(s) /\ IsYears(t) /\ h[s].route = h[t].route
            /\ Responded(s) /\ Responded(t)
            /\ Status(s) = 200 /\ Status(t) = 200 ) =>
              Body(s).rows = Body(t).rows
    /\ \A s \in Slots :
          (IsYears(s) /\ Responded(s) /\ Status(s) = 200) =>
              LET ys == Body(s).rows
              IN  /\ \A i \in 1..Len(ys) :
                        ys[i].t = "string" /\ AllDecimal(ys[i].s)
                  /\ \A i, j \in 1..Len(ys) :
                        i < j => IntegerOf(ys[i]) > IntegerOf(ys[j])

C12_Witness ==
    /\ IsYears(1) /\ IsYears(2) /\ h[1].route = h[2].route
    /\ Responded(1) /\ Responded(2)
    /\ Status(1) = 200 /\ Status(2) = 200
    /\ Len(Body(1).rows) >= 3
    /\ Cardinality({r.Year : r \in KpiRows}) < Cardinality(KpiRows)

\* the calls the handler of s has sent to the database, as (operation, table)
Attempts(sl) == [i \in 1..Len(sl.log) |-> <<sl.log[i].op, sl.log[i].table>>]

\* C13: no database operation is retried: within one request each validator
\* lookup and the final data query is sent at most once, and a failed database
\* call leads directly to the error response of the request, with no further
\* database call.
C13_NoDatabaseCallIsRetried ==
    [][\A s \in Slots :
          /\ \A i, j \in 1..Len(h'[s].log) :
                i # j => Attempts(h'[s])[i] # Attempts(h'[s])[j]
          /\ h'[s].dbErr # h[s].dbErr /\ h'[s].dbErr # <<>> =>
                /\ Len(h'[s].dbErr) = 1
                /\ h'[s].pc = "done"
                /\ h'[s].log = h[s].log
                /\ h'[s].resp[Len(h'[s].resp)].status \in {400, 500}
          /\ h[s].dbErr # <<>> /\ h'[s].pc # "idle" => h'[s].log = h[s].log]_vars

C13_Witness ==
    \E s \in Slots :
        /\ IsFetchKPI(s)
        /\ Responded(s)
        /\ h[s].dbErr # <<>>
        /\ Len(h[s].log) >= 3
        /\ h[s].log[Len(h[s].log)].op = "kpi"

\* one step of a fetchKPI handler with no other request in flight: its awaited
\* call resolves with the rows of the database, or, when it is call number
\* failAt, rejects with msg
AloneStep(sl, failAt, msg) ==
    IF Len(sl.log) = failAt
    THEN IF sl.route.src = "server" THEN server_fetchKPI_catch(Rejected(sl, msg), msg)
         ELSE part001_fetchKPI_catch(Rejected(sl, msg), msg)
    ELSE IF sl.route.src = "server" THEN server_fetchKPI_resume(sl, QueryRows(sl.pending))
         ELSE part001_fetchKPI_resume(sl, QueryRows(sl.pending))

RECURSIVE RunAlone(_, _, _)
RunAlone(sl, failAt, msg) ==
    IF sl.pc = "done" THEN sl ELSE RunAlone(AloneStep(sl, failAt, msg), failAt, msg)

\* the responses of the request of slot s had it been handled alone, its calls
\* to the database ending as they did
Alone(s) ==
    LET arrived == Incoming(h[s].route, h[s].query)
        begun == IF h[s].route.src = "server" THEN server_fetchKPI_begin(arrived)
                 ELSE part001_fetchKPI_begin(arrived)
        failed == h[s].dbErr # <<>>
    IN  RunAlone(begun, IF failed THEN Len(h[s].log) ELSE 0,
                 IF failed THEN h[s].dbErr[1] ELSE <<>>).resp

\* C14: concurrent requests do not interfere: whatever the interleaving of the
\* awaited database calls of the requests in flight, the response (status and
\* body) of each request is the one it gets when it is handled alone.
C14_ResponseAsWhenHandledAlone ==
    \A s \in Slots :
        (IsFetchKPI(s) /\ Responded(s)) => h[s].resp = Alone(s)

C14_Witness ==
    /\ served = 0
    /\ Responded(1) /\ Responded(2)
    /\ IsFetchKPI(1) /\ IsFetchKPI(2)
    /\ h[1].route.src = h[2].route.src
    /\ h[1].query # h[2].query
    /\ Status(1) = 200 /\ Status(2) = 200
    /\ Len(h[1].log) >= 3 /\ Len(h[2].log) >= 2
    /\ Body(1).rows # Body(2).rows

RECURSIVE CircleOf(_, _)
\* the circle at the root of the node id of level l (0 when there is no such node)
CircleOf(l, id) ==
    IF l = 1 THEN id
    ELSE LET hit == {r \in MasterTable(LevelStem[l] \o "s") : r.id = id}
         IN  IF hit = {} THEN 0 ELSE CircleOf(l - 1, (CHOOSE r \in hit : TRUE).parent)

\* every supplied filter whose parent level is supplied too belongs to that parent
AdjacentFiltersAgree(query) ==
    \A l \in 2..4 :
        LET hi == Filter(query, l - 1)
            lo == Filter(query, l)
        IN  (CanonicalInteger(hi) /\ CanonicalInteger(lo)) =>
                \A r \in RowsWithId(l, lo) : r.parent = IntegerOf(hi)

\* C15: whenever fetchKPI executes the KPI-table query, every supplied
\* geographic filter lies in the subtree of the supplied circleId, also when an
\* intermediate level is omitted: a lower-level ID of another circle never passes
\* validation.  (Stated for the requests whose adjacent filters agree, so that a
\* violation is one of a filter whose parent level is omitted.)
C15_FiltersInSubtreeOfCircle ==
    \A s \in Slots :
        (IsFetchKPI(s) /\ IssuedKpi(s) /\ AdjacentFiltersAgree(h[s].query)) =>
            \A l \in 2..4 :
                LET f == Filter(h[s].query, l)
                IN  Truthy(f) =>
                        /\ CanonicalInteger(f)
                        /\ CanonicalInteger(h[s].query.circleId)
                        /\ CircleOf(l, IntegerOf(f)) = IntegerOf(h[s].query.circleId)

\* the responses sent so far for the request of slot s: none while its handler
\* is awaiting, one once it has finished
OneResponseSoFar(s) ==
    /\ h[s].pc = "idle" => h[s].resp = <<>>
    /\ h[s].pc = "await" => h[s].resp = <<>> /\ h[s].pending # NoQuery
    /\ h[s].pc = "done" => Len(h[s].resp) = 1

\* C16: every request, on every route, results in exactly one response: no path
\* (early return, successful query, thrown validation error, rejected call) sends
\* two, and none ends without one, provided every awaited call resolves or
\* rejects: a handler that has not responded is awaiting a call, and when the
\* call settles it responds or awaits a later call, of which there are at most five.
C16_ExactlyOneResponse ==
    [][\A s \in Slots :
          /\ OneResponseSoFar(s)
          /\ OneResponseSoFar(s)'
          /\ (h[s].pc = "idle" /\ h'[s] # h[s]) => h'[s].pc \in {"await", "done"}
          /\ (h[s].pc = "await" /\ h'[s] # h[s]) =>
                \/ h'[s].pc = "done"
                \/ /\ h'[s].pc = "await"
                   /\ h[s].stage < h'[s].stage
                   /\ h'[s].stage <= 5]_vars

C16_Witness ==
    \E s \in Slots :
        /\ served = 1
        /\ h[s].route.src = "server"
        /\ h[s].route.kind = "children"
        /\ Responded(s)
        /\ Status(s) = 400
        /\ Len(h[s].log) = 1

EnergyFilters == <<"district_id", "substation_id", "feeder_id">>

EnergyColumn ==
    [district_id |-> "public.districts.id", substation_id |-> "public.substations.id",
     feeder_id |-> "public.feeders.id"]

\* the filters of /api/energy_data that the request supplies, in the order of the code
SuppliedFilters(query) ==
    LET Supplied(f) == Truthy(query[f])
    IN  SelectSeq(EnergyFilters, Supplied)

\* the words of the text between WHERE and ORDER BY (none without WHERE)
WhereWords(text) ==
    LET ws == {i \in 1..Len(text) : text[i] = "WHERE"}
        os == {i \in 1..Len(text) : text[i] = "ORDER"}
    IN  IF ws = {} THEN <<>>
        ELSE LET w == CHOOSE i \in ws : \A j \in ws : i <= j
                 o == CHOOSE i \in os : i > w /\ \A j \in os : j > w => i <= j
             IN  SubSeq(text, w + 1, o - 1)

\* C17: in /api/energy_data, for every subset of the optional filters district_id,
\* substation_id, feeder_id, the WHERE clause uses the placeholders $1..$n, n the
\* number of bound parameters, each once, the k-th on the column of the filter
\* whose value is the k-th parameter; with no filter there is no WHERE clause and
\* no parameter.
C17_PlaceholdersNumberTheParameters ==
    \A s \in Slots :
        (h[s].route.kind = "energy_data" /\ h[s].log # <<>>) =>
            LET q == h[s].log[1]
                fs == SuppliedFilters(h[s].query)
                n == Len(q.params)
                words == WhereWords(q.text)
                hasWhere == \E i \in 1..Len(q.text) : q.text[i] = "WHERE"
            IN  /\ n = Len(fs)
                /\ n = 0 => ~hasWhere
                /\ n > 0 =>
                      /\ hasWhere
                      /\ Len(words) = 4 * n - 1
                      /\ \A k \in 1..n :
                            /\ words[4 * k - 3] = EnergyColumn[fs[k]]
                            /\ words[4 * k - 2] = "="
                            /\ words[4 * k - 1] = "$" \o DigitChar(k)
                            /\ q.params[k] = h[s].query[fs[k]]
                            /\ k < n => words[4 * k] = "AND"

C17_Witness ==
    \E s \in Slots :
        /\ h[s].route.kind = "energy_data"
        /\ Responded(s)
        /\ Status(s) = 200
        /\ ~Truthy(h[s].query.district_id)
        /\ SuppliedFilters(h[s].query) = <<"substation_id", "feeder_id">>
        /\ Len(h[s].log[1].params) = 2

====
